---- MODULE Spec2Model ----
(***************************************************************************)
(* Model of htcondor_job_time_analysis/pull.py: the scheduler look-up      *)
(* table built when the module is loaded, __clusters_expand (cluster       *)
(* reference resolution) and acquire_timing (history extraction and the    *)
(* derived timing columns).                                                *)
(*                                                                         *)
(* Python strings are sequences of one-character strings.  A value that    *)
(* may be missing (None / NaN) is a sequence of length at most one:        *)
(* <<>> is the missing value and <<v>> is the value v.                     *)
(***************************************************************************)
EXTENDS Integers, Sequences, FiniteSets, TLC

VARIABLES
    pc,            \* "unloaded" before the module is imported, "loaded" after
    hostname,      \* what socket.gethostname() returns in this process
    located,       \* what Collector().locateAll(Schedd) returned to the import
    locate_calls,  \* number of locateAll queries issued so far
    schedd_lut,    \* __clusters_expand.__schedd_lut__, a dict in insertion order
    history,       \* the job ads the schedulers hold, in the order they answer
    args,          \* the arguments of the last call
    outcome,       \* what the last call returned or raised
    queries,       \* the history queries the last acquire_timing issued
    df             \* the DataFrame acquire_timing returned, None without one

vars == <<pc, hostname, located, locate_calls, schedd_lut, history, args,
          outcome, queries, df>>

----------------------------------------------------------------------------
(* Bounds of the model *)

MaxAds == 3
MaxRefLen == 3
MaxClusterId == 11
MaxArgs == 2
MaxJobs == 2
MaxTime == 1

----------------------------------------------------------------------------
(* Python values *)

None == <<>>

Some(v) == <<v>>

Digits == {"0", "1", "2", "3", "4", "5", "6", "7", "8", "9"}

DigitVal(c) ==
    CASE c = "0" -> 0 [] c = "1" -> 1 [] c = "2" -> 2 [] c = "3" -> 3
      [] c = "4" -> 4 [] c = "5" -> 5 [] c = "6" -> 6 [] c = "7" -> 7
      [] c = "8" -> 8 [] c = "9" -> 9

DigitChar(d) ==
    CASE d = 0 -> "0" [] d = 1 -> "1" [] d = 2 -> "2" [] d = 3 -> "3"
      [] d = 4 -> "4" [] d = 5 -> "5" [] d = 6 -> "6" [] d = 7 -> "7"
      [] d = 8 -> "8" [] d = 9 -> "9"

\* str.isdigit() on ASCII text: at least one character, every one a digit
IsDigit(s) == Len(s) > 0 /\ \A i \in 1..Len(s) : s[i] \in Digits

\* a wrong int(s): the digits are added up, their places forgotten
RECURSIVE StrToIntNoPlaces(_)
StrToIntNoPlaces(s) ==
    IF Len(s) = 0 THEN 0
    ELSE StrToIntNoPlaces(SubSeq(s, 1, Len(s) - 1)) + DigitVal(s[Len(s)])

\* int(s) of a string of digits: base ten, leading zeros allowed
RECURSIVE StrToInt(_)
StrToInt(s) ==
    IF Len(s) = 0 THEN 0
    ELSE 10 * StrToInt(SubSeq(s, 1, Len(s) - 1)) + DigitVal(s[Len(s)])

\* str(n) of an integer n >= 0: base ten, no leading zeros
RECURSIVE IntToStr(_)
IntToStr(n) ==
    IF n < 10 THEN <<DigitChar(n)>>
    ELSE Append(IntToStr(n \div 10), DigitChar(n % 10))

\* s.split(sep): the pieces between the occurrences of the character sep
RECURSIVE Split(_, _)
Split(s, sep) ==
    IF \A i \in 1..Len(s) : s[i] # sep THEN <<s>>
    ELSE LET i == CHOOSE k \in 1..Len(s) :
                      s[k] = sep /\ \A j \in 1..(k - 1) : s[j] # sep
         IN  <<SubSeq(s, 1, i - 1)>> \o Split(SubSeq(s, i + 1, Len(s)), sep)

\* x in y for two strings: x occurs in y as a contiguous run of characters
StrIn(x, y) ==
    \E i \in 1..(Len(y) + 1) :
        /\ i + Len(x) - 1 <= Len(y)
        /\ SubSeq(y, i, i + Len(x) - 1) = x

\* the sequences over S of length at most n
SeqsUpTo(S, n) == UNION {[1..k -> S] : k \in 0..n}

----------------------------------------------------------------------------
(* The scheduler look-up table: a dict, modelled as its items in insertion *)
(* order, each item a record [key, val].                                   *)

LutKeys(lut) == {lut[i].key : i \in 1..Len(lut)}

LutHas(lut, k) == k \in LutKeys(lut)

LutGet(lut, k) == lut[CHOOSE i \in 1..Len(lut) : lut[i].key = k].val

\* d[k] = v: a new key is appended, a known key keeps its place
LutSet(lut, k, v) ==
    IF LutHas(lut, k)
    THEN [i \in 1..Len(lut) |->
             IF lut[i].key = k THEN [key |-> k, val |-> v] ELSE lut[i]]
    ELSE Append(lut, [key |-> k, val |-> v])

\* the comprehension, one ad at a time
RECURSIVE LutOfAds(_)
LutOfAds(ads) ==
    IF Len(ads) = 0 THEN <<>>
    ELSE LET fulldef == ads[Len(ads)]
         IN  LutSet(LutOfAds(SubSeq(ads, 1, Len(ads) - 1)),
                    fulldef.Machine, fulldef)

\* a wrong table: the last ad the collector returned is left out
BuildLutDropLast(ads) ==
    IF Len(ads) = 0 THEN <<>> ELSE LutOfAds(SubSeq(ads, 1, Len(ads) - 1))

\* {fulldef['Machine']: fulldef for fulldef in ads}
BuildLut(ads) == LutOfAds(ads)

----------------------------------------------------------------------------
(* __clusters_expand *)

\* a cluster argument is an int or a str: the pair of its type and value
IntArg(n) == <<"int", n>>

StrArg(s) == <<"str", s>>

TypeOf(arg) == arg[1]

ValOf(arg) == arg[2]

Raise(kind, what, found) ==
    [kind |-> kind, name |-> what, matches |-> found]

\* a wrong look-up: the substring scan runs even for an exact key
LookupNoExactKey(lut, schedname) ==
    LET matches == SelectSeq([i \in 1..Len(lut) |-> lut[i].key],
                             LAMBDA m : StrIn(schedname, m))
    IN  IF Len(matches) = 0
        THEN Raise("UnknownScheduler", schedname, <<>>)
        ELSE IF Len(matches) > 1
        THEN Raise("AmbiguousScheduler", schedname, matches)
        ELSE [kind |-> "ok", daemon |-> LutGet(lut, matches[1])]

\* a wrong look-up: an alias that matches several keys takes the first
LookupFirstMatch(lut, schedname) ==
    IF ~LutHas(lut, schedname)
    THEN LET matches == SelectSeq([i \in 1..Len(lut) |-> lut[i].key],
                                  LAMBDA m : StrIn(schedname, m))
         IN  IF Len(matches) = 0
             THEN Raise("UnknownScheduler", schedname, <<>>)
             ELSE [kind |-> "ok", daemon |-> LutGet(lut, matches[1])]
    ELSE [kind |-> "ok", daemon |-> LutGet(lut, schedname)]

\* lines 55-64: the scheduler of a name
Lookup(lut, schedname) ==
    IF ~LutHas(lut, schedname)
    THEN LET matches == SelectSeq([i \in 1..Len(lut) |-> lut[i].key],
                                  LAMBDA m : StrIn(schedname, m))
         IN  IF Len(matches) = 0
             THEN Raise("UnknownScheduler", schedname, <<>>)
             ELSE IF Len(matches) > 1
             THEN Raise("AmbiguousScheduler", schedname, matches)
             ELSE [kind |-> "ok", daemon |-> LutGet(lut, matches[1])]
    ELSE [kind |-> "ok", daemon |-> LutGet(lut, schedname)]

\* a wrong parse: the number of parts is not checked
ParseArgAnyParts(arg, host) ==
    IF TypeOf(arg) = "int"
    THEN [kind |-> "ok", id |-> ValOf(arg), sched |-> host]
    ELSE IF IsDigit(ValOf(arg))
    THEN [kind |-> "ok", id |-> StrToInt(ValOf(arg)), sched |-> host]
    ELSE LET params == Split(ValOf(arg), ":")
         IN  IF Len(params) < 2 \/ ~IsDigit(params[1])
             THEN Raise("MalformedReference", ValOf(arg), <<>>)
             ELSE [kind |-> "ok", id |-> StrToInt(params[1]),
                   sched |-> params[2]]

\* lines 45-54: the cluster id and the scheduler name of one argument
ParseArg(arg, host) ==
    IF TypeOf(arg) = "int"
    THEN [kind |-> "ok", id |-> ValOf(arg), sched |-> host]
    ELSE IF IsDigit(ValOf(arg))
    THEN [kind |-> "ok", id |-> StrToInt(ValOf(arg)), sched |-> host]
    ELSE LET params == Split(ValOf(arg), ":")
         IN  IF Len(params) # 2 \/ ~IsDigit(params[1])
             THEN Raise("MalformedReference", ValOf(arg), <<>>)
             ELSE [kind |-> "ok", id |-> StrToInt(params[1]),
                   sched |-> params[2]]

\* lines 43-64: one turn of the loop, the pair appended or the error raised
ExpandOne(arg, lut, host) ==
    LET p == ParseArg(arg, host)
    IN  IF p.kind # "ok" THEN p
        ELSE LET s == Lookup(lut, p.sched)
             IN  IF s.kind # "ok" THEN s
                 ELSE [kind |-> "ok", pair |-> <<p.id, s.daemon>>]

\* a wrong loop: an argument that does not resolve is left out
RECURSIVE ExpandLoopSkipping(_, _, _, _)
ExpandLoopSkipping(rest, clusters, lut, host) ==
    IF Len(rest) = 0 THEN [kind |-> "ok", clusters |-> clusters]
    ELSE LET r == ExpandOne(Head(rest), lut, host)
         IN  IF r.kind # "ok"
             THEN ExpandLoopSkipping(Tail(rest), clusters, lut, host)
             ELSE ExpandLoopSkipping(Tail(rest), Append(clusters, r.pair),
                                     lut, host)

\* lines 41-65: the loop over the arguments; the first raise ends the call
RECURSIVE ExpandLoop(_, _, _, _)
ExpandLoop(rest, clusters, lut, host) ==
    IF Len(rest) = 0 THEN [kind |-> "ok", clusters |-> clusters]
    ELSE LET r == ExpandOne(Head(rest), lut, host)
         IN  IF r.kind # "ok" THEN r
             ELSE ExpandLoop(Tail(rest), Append(clusters, r.pair), lut, host)

ClustersExpand(arglist, lut, host) == ExpandLoop(arglist, <<>>, lut, host)

----------------------------------------------------------------------------
(* acquire_timing *)

\* lines 95-109: the columns pulled from the history, in the dict's order
ItemsOfInterest ==
    <<"ClusterId", "ProcId", "ExitCode", "QDate", "TransferInputSizeMB",
      "JobStartDate", "TransferInQueued", "TransferInStarted",
      "TransferInFinished", "TransferOutQueued", "TransferOutStarted",
      "TransferOutFinished", "BytesSent">>

ItemNames == {ItemsOfInterest[i] : i \in 1..Len(ItemsOfInterest)}

\* h.get(k): the attribute's value, None when the ad does not have it
Get(h, k) == IF k \in DOMAIN h THEN Some(h[k]) ELSE None

\* a wrong history: the ClusterId constraint is not applied
HistoryNoConstraint(hist, submitter, cluster_id) ==
    LET mine == SelectSeq(hist, LAMBDA e : e.schedd = submitter.MyAddress)
    IN  [i \in 1..Len(mine) |-> mine[i].ad]

\* a wrong history: only the first ad of the answer is read
HistoryFirstOnly(hist, submitter, cluster_id) ==
    LET mine == SelectSeq(hist, LAMBDA e :
                     /\ e.schedd = submitter.MyAddress
                     /\ e.ad.ClusterId = cluster_id)
    IN  [i \in 1..(IF Len(mine) > 0 THEN 1 ELSE 0) |-> mine[i].ad]

\* lines 112-116: Schedd(submitter).history(ClusterId == cluster_id, ...),
\* the ads of that scheduler with that cluster id, in the scheduler's order
History(hist, submitter, cluster_id) ==
    LET mine == SelectSeq(hist, LAMBDA e :
                     /\ e.schedd = submitter.MyAddress
                     /\ e.ad.ClusterId = cluster_id)
    IN  [i \in 1..Len(mine) |-> mine[i].ad]

\* lines 111-116: one history query for each cluster, in order
Pull(clusters, hist) ==
    [i \in 1..Len(clusters) |->
        [submitter  |-> clusters[i][2],
         cluster_id |-> clusters[i][1],
         answer     |-> History(hist, clusters[i][2], clusters[i][1])]]

\* the ads of all the answers, one after the other
RECURSIVE Flatten(_)
Flatten(pulled) ==
    IF Len(pulled) = 0 THEN <<>>
    ELSE Flatten(SubSeq(pulled, 1, Len(pulled) - 1))
             \o pulled[Len(pulled)].answer

\* lines 117-120: every ad appends one cell to every column
Frame(ads) ==
    [k \in ItemNames |-> [i \in 1..Len(ads) |-> Get(ads[i], k)]]

\* arithmetic on cells: a missing operand (NaN in a numeric column, None in
\* an object column) gives a missing result
Sub(a, b) == IF a = None \/ b = None THEN None ELSE Some(a[1] - b[1])

Add(a, b) == IF a = None \/ b = None THEN None ELSE Some(a[1] + b[1])

ColSub(a, b) == [i \in 1..Len(a) |-> Sub(a[i], b[i])]

ColAdd(a, b) == [i \in 1..Len(a) |-> Add(a[i], b[i])]

\* Series.fillna(v)
FillNa(col, v) == [i \in 1..Len(col) |-> IF col[i] = None THEN Some(v) ELSE col[i]]

\* lines 123-124: the two columns of one direction, "In" or "Out"
WithTransfer(f, Finished, Started, Queued, Transfer, QueueTime) ==
    LET f1 == (Transfer :> ColSub(f[Finished], f[Started])) @@ f
    IN  (QueueTime :> FillNa(ColSub(f1[Started], f1[Queued]), 0)) @@ f1

\* the columns with a wrong JobTime, counted from the submission
DeriveFromQDate(frame) ==
    LET f1 == ("JobTime" :> ColSub(frame["TransferOutFinished"],
                                   frame["QDate"])) @@ frame
        f2 == WithTransfer(f1, "TransferInFinished", "TransferInStarted",
                  "TransferInQueued", "TransferIn", "TransferInQueueTime")
        f3 == WithTransfer(f2, "TransferOutFinished", "TransferOutStarted",
                  "TransferOutQueued", "TransferOut", "TransferOutQueueTime")
        f4 == ("TransferTime" :>
                  ColAdd(ColAdd(ColAdd(f3["TransferIn"], f3["TransferOut"]),
                                f3["TransferInQueueTime"]),
                         f3["TransferOutQueueTime"])) @@ f3
    IN  ("ExecuteTime" :> ColSub(f4["TransferOutStarted"],
                                 f4["TransferInFinished"])) @@ f4

\* the columns with a wrong ExecuteTime, counted from the transfer's start
DeriveFromInStarted(frame) ==
    LET f1 == ("JobTime" :> ColSub(frame["TransferOutFinished"],
                                   frame["JobStartDate"])) @@ frame
        f2 == WithTransfer(f1, "TransferInFinished", "TransferInStarted",
                  "TransferInQueued", "TransferIn", "TransferInQueueTime")
        f3 == WithTransfer(f2, "TransferOutFinished", "TransferOutStarted",
                  "TransferOutQueued", "TransferOut", "TransferOutQueueTime")
        f4 == ("TransferTime" :>
                  ColAdd(ColAdd(ColAdd(f3["TransferIn"], f3["TransferOut"]),
                                f3["TransferInQueueTime"]),
                         f3["TransferOutQueueTime"])) @@ f3
    IN  ("ExecuteTime" :> ColSub(f4["TransferOutStarted"],
                                 f4["TransferInStarted"])) @@ f4

\* lines 121-126: the derived columns
Derive(frame) ==
    LET f1 == ("JobTime" :> ColSub(frame["TransferOutFinished"],
                                   frame["JobStartDate"])) @@ frame
        f2 == WithTransfer(f1, "TransferInFinished", "TransferInStarted",
                  "TransferInQueued", "TransferIn", "TransferInQueueTime")
        f3 == WithTransfer(f2, "TransferOutFinished", "TransferOutStarted",
                  "TransferOutQueued", "TransferOut", "TransferOutQueueTime")
        f4 == ("TransferTime" :>
                  ColAdd(ColAdd(ColAdd(f3["TransferIn"], f3["TransferOut"]),
                                f3["TransferInQueueTime"]),
                         f3["TransferOutQueueTime"])) @@ f3
    IN  ("ExecuteTime" :> ColSub(f4["TransferOutStarted"],
                                 f4["TransferInFinished"])) @@ f4

\* lines 93-127: the clusters expanded, then the queries, then the columns;
\* an argument that does not resolve raises before any query
AcquireTiming(arglist, lut, host, hist) ==
    LET expanded == ClustersExpand(arglist, lut, host)
    IN  IF expanded.kind # "ok"
        THEN [outcome |-> expanded, queries |-> <<>>, df |-> None]
        ELSE LET pulled == Pull(expanded.clusters, hist)
             IN  [outcome |-> expanded,
                  queries |-> pulled,
                  df      |-> Some(Derive(Frame(Flatten(pulled))))]

----------------------------------------------------------------------------
(* Inputs *)

\* host names the collector may report and the local host may have
Machines == {<<"a">>, <<"a", "b">>, <<"b", "a">>}

LocalNames == {<<"a">>, <<"b", "b">>}

\* the ads of a locateAll answer: ad i is the scheduler daemon at address i
AdsOf(names) ==
    [i \in 1..Len(names) |-> [Machine |-> names[i], MyAddress |-> i]]

LocateAllAnswers == {AdsOf(names) : names \in SeqsUpTo(Machines, MaxAds)}

RefAlphabet == {"1", ":", "a"}

StrRefs == SeqsUpTo(RefAlphabet, MaxRefLen)

NoOutcome == [kind |-> "none"]

\* the timestamps of a job ad
TimeAttrs ==
    {"JobStartDate", "TransferInQueued", "TransferInStarted",
     "TransferInFinished", "TransferOutQueued", "TransferOutStarted",
     "TransferOutFinished"}

\* the attributes every job ad of the model has
BaseAd(c, p) ==
    [ClusterId |-> c, ProcId |-> p, ExitCode |-> 0, QDate |-> 0,
     TransferInputSizeMB |-> 1, BytesSent |-> 0]

\* a complete job ad
ExampleAd(c, p) ==
    [ClusterId |-> c, ProcId |-> p, ExitCode |-> 0, QDate |-> 0,
     TransferInputSizeMB |-> 1, BytesSent |-> 0,
     JobStartDate |-> 10, TransferInQueued |-> 10, TransferInStarted |-> 12,
     TransferInFinished |-> 15, TransferOutQueued |-> 20,
     TransferOutStarted |-> 20, TransferOutFinished |-> 30]

\* job 1.0 with every choice of recorded timestamps, and the complete ad
RawAds ==
    UNION {{times @@ BaseAd(1, 0) : times \in [present -> 0..MaxTime]} :
               present \in SUBSET TimeAttrs}
        \cup {ExampleAd(1, 0)}

\* what the collector may have answered, in the runs of the command
MainLocated ==
    {AdsOf(<<<<"a">>, <<"b">>>>), AdsOf(<<<<"a", "b">>, <<"b", "a">>>>)}

\* the command's cluster arguments
MainRefs ==
    {<<"1">>, <<"2">>, <<"1", ":", "a">>, <<"1", ":", "b">>, <<"b">>}

MainArgs == {[i \in 1..Len(a) |-> StrArg(a[i])] : a \in SeqsUpTo(MainRefs, MaxArgs)}

\* the jobs of the pool: clusters 1 and 2 of either scheduler
Jobs == {<<1, 0>>, <<1, 1>>, <<2, 0>>}

HistoryEntries ==
    {[schedd |-> a, ad |-> ExampleAd(j[1], j[2])] : a \in {1, 2}, j \in Jobs}

\* a scheduler holds one ad for each of its jobs
OneAdPerJob(hist) ==
    \A i, j \in 1..Len(hist) :
        (/\ hist[i].schedd = hist[j].schedd
         /\ hist[i].ad.ClusterId = hist[j].ad.ClusterId
         /\ hist[i].ad.ProcId = hist[j].ad.ProcId) => i = j

Histories == {h \in SeqsUpTo(HistoryEntries, MaxJobs) : OneAdPerJob(h)}

----------------------------------------------------------------------------
(* Operations *)

\* lines 68-71: importing the module queries the collector once
Import(ads) ==
    /\ pc = "unloaded"
    /\ pc' = "loaded"
    /\ located' = ads
    /\ locate_calls' = locate_calls + 1
    /\ schedd_lut' = BuildLut(ads)
    /\ UNCHANGED <<hostname, history, args, outcome, queries, df>>

\* a call of __clusters_expand
Expand(arglist) ==
    /\ pc = "loaded"
    /\ args' = arglist
    /\ outcome' = ClustersExpand(arglist, schedd_lut, hostname)
    /\ UNCHANGED <<pc, hostname, located, locate_calls, schedd_lut, history,
                   queries, df>>

\* lines 153-156: the command calls acquire_timing once with its cluster
\* arguments, and the process ends with the table written or the error
Main(arglist) ==
    /\ pc = "loaded"
    /\ pc' = "exited"
    /\ args' = arglist
    /\ LET r == AcquireTiming(arglist, schedd_lut, hostname, history)
       IN  /\ outcome' = r.outcome
           /\ queries' = r.queries
           /\ df' = r.df
    /\ UNCHANGED <<hostname, located, locate_calls, schedd_lut, history>>

ImportModule == \E ads \in LocateAllAnswers : Import(ads)

ExpandStr == \E s \in StrRefs : Expand(<<StrArg(s)>>)

ExpandInt == \E n \in 0..MaxClusterId : Expand(<<IntArg(n)>>)

ExpandIntStr == \E n \in 0..MaxClusterId : Expand(<<StrArg(IntToStr(n))>>)

RunMain == \E arglist \in MainArgs : Main(arglist)

RunMainOnJob == Main(<<StrArg(<<"1">>)>>)

\* the process before the module is imported
InitResolve ==
    /\ pc = "unloaded"
    /\ hostname \in LocalNames
    /\ located = <<>>
    /\ locate_calls = 0
    /\ schedd_lut = <<>>
    /\ history = <<>>
    /\ args = <<>>
    /\ outcome = NoOutcome
    /\ queries = <<>>
    /\ df = None

NextResolve == ImportModule \/ ExpandStr \/ ExpandInt \/ ExpandIntStr

\* library use: the import, then any number of resolution requests
SpecResolve == InitResolve /\ [][NextResolve]_vars

\* the command after its imports, in a pool with some job history
Init ==
    /\ pc = "loaded"
    /\ hostname \in LocalNames
    /\ located \in MainLocated
    /\ locate_calls = 1
    /\ schedd_lut = BuildLut(located)
    /\ history \in Histories
    /\ args = <<>>
    /\ outcome = NoOutcome
    /\ queries = <<>>
    /\ df = None

Next == RunMain

\* one run of the pull command
Spec == Init /\ [][Next]_vars

\* the command on the local host's scheduler, which holds one job
InitDerive ==
    /\ pc = "loaded"
    /\ hostname = <<"a">>
    /\ located = AdsOf(<<<<"a">>>>)
    /\ locate_calls = 1
    /\ schedd_lut = BuildLut(located)
    /\ history \in {<<[schedd |-> 1, ad |-> raw]>> : raw \in RawAds}
    /\ args = <<>>
    /\ outcome = NoOutcome
    /\ queries = <<>>
    /\ df = None

NextDerive == RunMainOnJob

\* one run of the pull command over every job ad
SpecDerive == InitDerive /\ [][NextDerive]_vars

----------------------------------------------------------------------------
(* Properties of the scheduler look-up and of reference resolution,        *)
(* checked under SpecResolve.                                              *)

\* the last call had the one string argument s
CalledWithStr(s) ==
    /\ pc = "loaded"
    /\ Len(args) = 1
    /\ TypeOf(args[1]) = "str"
    /\ ValOf(args[1]) = s

\* the last call had the one integer argument n
CalledWithInt(n) ==
    /\ pc = "loaded"
    /\ Len(args) = 1
    /\ TypeOf(args[1]) = "int"
    /\ ValOf(args[1]) = n

\* name occurs in key, some characters before it and some after it
Contains(key, name) ==
    \E before \in 0..Len(key) :
        /\ before + Len(name) <= Len(key)
        /\ \A t \in 1..Len(name) : key[before + t] = name[t]

KeysContaining(name) ==
    {located[i].Machine : i \in 1..Len(located)} \cap
        {k \in Machines : Contains(k, name)}

\* the ad the table holds for a machine: the last one the collector named
StoredAd(machine) ==
    located[CHOOSE i \in 1..Len(located) :
                /\ located[i].Machine = machine
                /\ \A j \in (i + 1)..Len(located) :
                       located[j].Machine # machine]

ReportedMachines == {located[i].Machine : i \in 1..Len(located)}

\* the value of a string of digits, most significant digit first
RECURSIVE DecimalFrom(_, _)
DecimalFrom(s, acc) ==
    IF Len(s) = 0 THEN acc
    ELSE DecimalFrom(Tail(s), 10 * acc + DigitVal(Head(s)))

\* s is <digits>:<name>; the two parts are given by the place of the colon
IsQualified(s, colon) ==
    /\ colon \in 2..Len(s)
    /\ s[colon] = ":"
    /\ \A j \in 1..(colon - 1) : s[j] \in Digits
    /\ \A j \in (colon + 1)..Len(s) : s[j] # ":"

\* the last call had one argument that is a cluster id by itself
CalledWithBareId ==
    /\ pc = "loaded"
    /\ Len(args) = 1
    /\ \/ TypeOf(args[1]) = "int"
       \/ /\ TypeOf(args[1]) = "str"
          /\ Len(ValOf(args[1])) > 0
          /\ \A j \in 1..Len(ValOf(args[1])) : ValOf(args[1])[j] \in Digits

\* what the claim says of the look-up of a name that is not a key
FallsBack(name) ==
    LET hits == KeysContaining(name)
    IN  /\ hits = {} =>
               outcome.kind = "UnknownScheduler" /\ outcome.name = name
        /\ Cardinality(hits) = 1 =>
               /\ outcome.kind = "ok"
               /\ \A k \in hits : outcome.clusters[1][2] = StoredAd(k)
        /\ Cardinality(hits) > 1 =>
               /\ outcome.kind = "AmbiguousScheduler"
               /\ outcome.name = name
               /\ {outcome.matches[i] : i \in 1..Len(outcome.matches)} = hits
               /\ Len(outcome.matches) = Cardinality(hits)

\* C3: a call whose scheduler name (the part after the colon, or the local
\* host name for a bare cluster id) is not a key of the table scans the
\* keys for the name: no key containing it raises UnknownScheduler, one key
\* returns that key's ad, several raise AmbiguousScheduler naming exactly
\* the keys that contain it.  The empty name is contained in every key.
C3_SubstringFallback ==
    /\ \A s \in StrRefs : \A colon \in 1..Len(s) :
           LET name == SubSeq(s, colon + 1, Len(s))
           IN  (CalledWithStr(s) /\ IsQualified(s, colon)
                    /\ name \notin ReportedMachines) => FallsBack(name)
    /\ (CalledWithBareId /\ hostname \notin ReportedMachines)
           => FallsBack(hostname)

C3_Witness ==
    /\ CalledWithStr(<<"1", ":", "a">>)
    /\ outcome.kind = "AmbiguousScheduler"
    /\ Len(outcome.matches) = 2

\* C4: a reference <id>:<name> whose name is a key of the table resolves to
\* the id and the ad stored under that key, also when other keys contain
\* the name.
C4_ExactKeyFirst ==
    \A s \in StrRefs : \A colon \in 1..Len(s) :
        LET name == SubSeq(s, colon + 1, Len(s))
        IN  (CalledWithStr(s) /\ IsQualified(s, colon)
                 /\ name \in ReportedMachines) =>
                /\ outcome.kind = "ok"
                /\ outcome.clusters =
                       <<<<DecimalFrom(SubSeq(s, 1, colon - 1), 0),
                           StoredAd(name)>>>>

C4_Witness ==
    /\ CalledWithStr(<<"1", ":", "a">>)
    /\ {<<"a">>, <<"a", "b">>} \subseteq ReportedMachines
    /\ outcome.kind = "ok"

\* what the look-up of the local host name gives for cluster n
LocalResult(n) ==
    LET s == Lookup(schedd_lut, hostname)
    IN  IF s.kind = "ok"
        THEN [kind |-> "ok", clusters |-> <<<<n, s.daemon>>>>]
        ELSE s

\* C5: the integer n and the string str(n) both resolve to the pair of n
\* and the scheduler the look-up of the local host name gives (and fail as
\* that look-up fails).
C5_BareIdIsLocal ==
    \A n \in 0..MaxClusterId :
        (CalledWithInt(n) \/ CalledWithStr(IntToStr(n)))
            => outcome = LocalResult(n)

C5_Witness ==
    /\ CalledWithStr(<<"1", "0">>)
    /\ outcome.kind = "ok"
    /\ outcome.clusters[1][1] = 10

\* a string of digits, or <digits>:<name> with one colon
WellFormed(s) ==
    \/ (Len(s) > 0 /\ \A j \in 1..Len(s) : s[j] \in Digits)
    \/ \E colon \in 1..Len(s) : IsQualified(s, colon)

\* C6: a string that is neither all digits nor <digits>:<name> raises
\* MalformedReference, whatever the table holds.
C6_MalformedRejected ==
    \A s \in StrRefs :
        (CalledWithStr(s) /\ ~WellFormed(s))
            => outcome.kind = "MalformedReference"

C6_Witness ==
    /\ CalledWithStr(<<"1", ":", ":">>)
    /\ Len(schedd_lut) > 0
    /\ outcome.kind = "MalformedReference"

\* C10 as claimed: the collector is queried at the first resolution request
\* and not before one.
C10_QueriedLazily == locate_calls > 0 => outcome.kind # "none"

\* C10 as amended: the collector is queried once, when the module is loaded;
\* from then on the keys of the table are the machines it reported, through
\* every later resolution request.
C10_QueriedOnceAtLoad ==
    /\ pc = "unloaded" => locate_calls = 0 /\ outcome.kind = "none"
    /\ pc = "loaded" =>
           /\ locate_calls = 1
           /\ LutKeys(schedd_lut) = ReportedMachines
           /\ Len(schedd_lut) = Cardinality(ReportedMachines)

C10_Witness ==
    /\ pc = "loaded"
    /\ Cardinality(ReportedMachines) = 2
    /\ outcome.kind = "UnknownScheduler"

----------------------------------------------------------------------------
(* Properties of the derived columns, checked under SpecDerive: the table  *)
(* has the one row of the job ad the scheduler holds.                      *)

TheAd == history[1].ad

Returned == pc = "exited" /\ df # None

\* the cell of the table's only row in a column
Cell(column) == df[1][column][1]

Recorded(ad) == DOMAIN ad \cap TimeAttrs

\* C1: with every timestamp recorded, each derived column is the
\* difference (or sum) the formulas name, and the ad of the example gives
\* TransferIn 3, TransferInQueueTime 2, TransferOut 10,
\* TransferOutQueueTime 0, TransferTime 15, ExecuteTime 5 and JobTime 20.
C1_DerivedColumns ==
    (Returned /\ Recorded(TheAd) = TimeAttrs) =>
        LET r == TheAd
            TransferIn == r.TransferInFinished - r.TransferInStarted
            TransferOut == r.TransferOutFinished - r.TransferOutStarted
            InQueue == r.TransferInStarted - r.TransferInQueued
            OutQueue == r.TransferOutStarted - r.TransferOutQueued
        IN  /\ Cell("JobTime") =
                   <<r.TransferOutFinished - r.JobStartDate>>
            /\ Cell("TransferIn") = <<TransferIn>>
            /\ Cell("TransferOut") = <<TransferOut>>
            /\ Cell("TransferInQueueTime") = <<InQueue>>
            /\ Cell("TransferOutQueueTime") = <<OutQueue>>
            /\ Cell("TransferTime") =
                   <<TransferIn + TransferOut + InQueue + OutQueue>>
            /\ Cell("ExecuteTime") =
                   <<r.TransferOutStarted - r.TransferInFinished>>
            /\ (r.JobStartDate = 10 /\ r.TransferInQueued = 10
                  /\ r.TransferInStarted = 12 /\ r.TransferInFinished = 15
                  /\ r.TransferOutQueued = 20 /\ r.TransferOutStarted = 20
                  /\ r.TransferOutFinished = 30) =>
                   /\ Cell("TransferIn") = <<3>>
                   /\ Cell("TransferInQueueTime") = <<2>>
                   /\ Cell("TransferOut") = <<10>>
                   /\ Cell("TransferOutQueueTime") = <<0>>
                   /\ Cell("TransferTime") = <<15>>
                   /\ Cell("ExecuteTime") = <<5>>
                   /\ Cell("JobTime") = <<20>>

C1_Witness ==
    /\ Returned
    /\ TheAd = ExampleAd(1, 0)
    /\ Cell("TransferTime") = <<15>>

\* TransferInStarted is the one timestamp the ad does not record
OnlyInStartedMissing == Recorded(TheAd) = TimeAttrs \ {"TransferInStarted"}

\* C2 as claimed: without TransferInStarted, TransferIn and ExecuteTime are
\* missing, TransferInQueueTime is 0 and JobTime is defined.
C2_ExecuteTimeMissing ==
    (Returned /\ OnlyInStartedMissing) =>
        /\ Cell("TransferIn") = None
        /\ Cell("ExecuteTime") = None
        /\ Cell("TransferInQueueTime") = <<0>>
        /\ Cell("JobTime") =
               <<TheAd.TransferOutFinished - TheAd.JobStartDate>>

\* C2 as amended: without TransferInStarted, TransferIn is missing,
\* ExecuteTime is TransferOutStarted - TransferInFinished (it does not read
\* TransferInStarted), TransferInQueueTime is 0 and JobTime is defined.
C2_ExecuteTimeDefined ==
    (Returned /\ OnlyInStartedMissing) =>
        /\ Cell("TransferIn") = None
        /\ Cell("ExecuteTime") =
               <<TheAd.TransferOutStarted - TheAd.TransferInFinished>>
        /\ Cell("TransferInQueueTime") = <<0>>
        /\ Cell("JobTime") =
               <<TheAd.TransferOutFinished - TheAd.JobStartDate>>

C2_Witness ==
    /\ Returned
    /\ OnlyInStartedMissing
    /\ Cell("TransferIn") = None
    /\ Cell("ExecuteTime") = <<1>>

----------------------------------------------------------------------------
(* Properties of a run of the command, checked under Spec.                 *)

\* what argument i resolves to by itself
Alone(i) == ExpandOne(args[i], schedd_lut, hostname)

Failing == {i \in 1..Len(args) : Alone(i).kind # "ok"}

\* C7: either every argument resolves and the clusters are the arguments'
\* pairs in the arguments' order, or the call raises what the first
\* failing argument raises, issues no history query and returns no table.
C7_AllOrNothing ==
    pc = "exited" =>
        IF Failing = {}
        THEN /\ outcome.kind = "ok"
             /\ Len(outcome.clusters) = Len(args)
             /\ \A i \in 1..Len(args) : outcome.clusters[i] = Alone(i).pair
             /\ df # None
        ELSE /\ \A i \in Failing :
                    (\A j \in Failing : i <= j) => outcome = Alone(i)
             /\ queries = <<>>
             /\ df = None

C7_Witness ==
    /\ pc = "exited"
    /\ Len(args) = 2
    /\ Failing = {2}
    /\ Len(history) > 0
    /\ queries = <<>>

\* the places in the history of the ads a query asks for
Asked(q) ==
    {t \in 1..Len(history) :
        /\ history[t].schedd = q.submitter.MyAddress
        /\ history[t].ad.ClusterId = q.cluster_id}

\* the j-th of them
AskedAt(q, j) ==
    CHOOSE t \in Asked(q) : Cardinality({u \in Asked(q) : u < t}) = j - 1

\* the rows that come before the rows of query i
RECURSIVE RowsBefore(_)
RowsBefore(i) ==
    IF i <= 1 THEN 0
    ELSE RowsBefore(i - 1) + Cardinality(Asked(queries[i - 1]))

Rows == Len(df[1]["ClusterId"])

\* C8: one query for each resolved cluster, in order; the rows are the ads
\* of the first answer in the answer's order, then those of the second, and
\* so on; an empty answer adds no row.
C8_RowsInQueryOrder ==
    (pc = "exited" /\ outcome.kind = "ok") =>
        /\ Len(queries) = Len(outcome.clusters)
        /\ \A i \in 1..Len(queries) :
               /\ queries[i].cluster_id = outcome.clusters[i][1]
               /\ queries[i].submitter = outcome.clusters[i][2]
               /\ Len(queries[i].answer) = Cardinality(Asked(queries[i]))
               /\ \A j \in 1..Cardinality(Asked(queries[i])) :
                      LET ad == history[AskedAt(queries[i], j)].ad
                      IN  /\ queries[i].answer[j] = ad
                          /\ \A k \in ItemNames :
                                 df[1][k][RowsBefore(i) + j] = <<ad[k]>>
        /\ Rows = RowsBefore(Len(queries) + 1)
        /\ \A k \in DOMAIN df[1] : Len(df[1][k]) = Rows

C8_Witness ==
    /\ pc = "exited"
    /\ outcome.kind = "ok"
    /\ Len(queries) = 2
    /\ Len(queries[1].answer) = 0
    /\ Len(queries[2].answer) = 2
    /\ Rows = 2

NoTwoRowsOfOneJob ==
    \A i, j \in 1..Rows :
        (/\ df[1]["ClusterId"][i] = df[1]["ClusterId"][j]
         /\ df[1]["ProcId"][i] = df[1]["ProcId"][j]) => i = j

====
